---------------------------- MODULE Spec2Model ----------------------------
(***************************************************************************)
(* Frame-driven timing model of the ParfumSara video composition.          *)
(*                                                                         *)
(* Numbers the code computes in floating point (6.8 * fps, 0.7, ...) are   *)
(* exact rationals here: a pair <<n, d>> in lowest terms with d > 0.       *)
(* Frames are integers, as the renderer hands them out.                    *)
(***************************************************************************)
EXTENDS Integers, Sequences, FiniteSets, TLC

VARIABLES
    fps,              \* useVideoConfig().fps
    durationInFrames, \* useVideoConfig().durationInFrames of the composition
    frame,            \* the frame the renderer asked for last
    volume,           \* the <Audio> volume callback's value at that frame
    activeScenes,     \* the TransitionSeries sequences mounted at that frame
    showcaseTexts,    \* length of the showcaseTexts prop
    slides,           \* what each TextSlide returned (<<>>: showcase unmounted)
    particleCount,    \* the particleCount prop of SparklingParticles
    particles,        \* the useMemo'd result of generateParticles
    earlier,          \* what the generateParticles call before that returned
    intro,            \* what IntroScene computed at its frame
    image,            \* what ProductShowcase computed for the product image
    outro,            \* what OutroScene computed at its frame
    background,       \* what BackgroundGradient computed
    features,         \* length of the features prop of FeaturesScene
    featureScene      \* what FeaturesScene and its items computed

sceneVars == <<intro, image, outro, background, features, featureScene>>

vars == <<fps, durationInFrames, frame, volume, activeScenes, showcaseTexts,
          slides, particleCount, particles, earlier, sceneVars>>

-----------------------------------------------------------------------------
(* Bounds of the model *)

\* fps values 1..MaxFps are explored beside the registered VIDEO_FPS
MaxFps == 6
\* how far back one preview scrub jumps
MaxScrub == 2
\* showcaseTexts lengths 0..MaxTexts for the TextSlide function on its own
MaxTexts == 6
\* frames before 0 and after the last slot TextSlide is evaluated at
FrameMargin == 3
\* features lengths 0..MaxFeatures for FeaturesScene
MaxFeatures == 3
\* particleCount values 0..MaxParticles beside the default
MaxParticles == 10
\* composition lengths 5*fps + 1 .. 5*fps + MaxExtra beside the registered one
MaxExtra == 2
\* frames SparklingParticles is rendered at on its own
MaxRenders == 4

-----------------------------------------------------------------------------
(* Root: the registered composition *)

VIDEO_FPS == 30
VIDEO_DURATION_IN_FRAMES == 50 * VIDEO_FPS
\* the showcaseTexts default prop holds five entries
DefaultShowcaseTexts == 5

\* the frame rates the composition is rendered at
FpsValues == (1..MaxFps) \cup {VIDEO_FPS}

-----------------------------------------------------------------------------
(* Rational arithmetic *)

\* Value({body : x \in {a}}) is const x = a; body: a is computed once and
\* then used by name
Value(S) == CHOOSE v \in S : TRUE

Abs(x) == IF x < 0 THEN -x ELSE x

RECURSIVE GCD(_, _)
GCD(a, b) == IF b = 0 THEN a ELSE GCD(b, a % b)

\* n/d in lowest terms with a positive denominator, g their common divisor
Reduced(n, d, g) ==
    IF d < 0 THEN <<(-n) \div g, (-d) \div g>> ELSE <<n \div g, d \div g>>

Rat(n, d) == Reduced(n, d, GCD(Abs(n), Abs(d)))

RInt(k) == <<k, 1>>
RAdd(a, b) == Rat(a[1] * b[2] + b[1] * a[2], a[2] * b[2])
RSub(a, b) == Rat(a[1] * b[2] - b[1] * a[2], a[2] * b[2])
\* the product of two fractions whose numerators were reduced against the
\* other's denominator
Product(x, y) == Rat(x[1] * y[1], x[2] * y[2])
RMul(a, b) == Product(Rat(a[1], b[2]), Rat(b[1], a[2]))
RDiv(a, b) == RMul(a, Rat(b[2], b[1]))
RLt(a, b) == a[1] * b[2] < b[1] * a[2]
RLe(a, b) == a[1] * b[2] <= b[1] * a[2]
RGe(a, b) == RLe(b, a)
RGt(a, b) == RLt(b, a)

-----------------------------------------------------------------------------
(* remotion's interpolate(), as the components call it *)

\* one interpolate() call as a component writes it: the two arrays it passes
Call(site, inputRange, outputRange) ==
    [site |-> site, inputRange |-> inputRange, outputRange |-> outputRange]

\* the checks interpolate() makes before it computes: the arrays are equally
\* long, hold two elements or more, and the input one is strictly increasing
ValidConfiguration(call) ==
    /\ Len(call.inputRange) = Len(call.outputRange)
    /\ Len(call.inputRange) >= 2
    /\ \A i \in 2..Len(call.inputRange) :
           RGt(call.inputRange[i], call.inputRange[i - 1])

\* findRange: the segment of inputRange the input falls in (0-based)
RECURSIVE FindRange(_, _, _)
FindRange(input, inputRange, i) ==
    IF i < Len(inputRange) - 1 /\ ~RGe(inputRange[i + 1], input)
    THEN FindRange(input, inputRange, i + 1)
    ELSE i - 1

\* the edge policies ignored: the segment is always extended
InterpolateFunction_AlwaysExtends(input, inputMin, inputMax, outputMin, outputMax, extrapolateLeft, extrapolateRight) ==
    LET r1 == IF RLt(input, inputMin) /\ extrapolateLeft = "hold"
              THEN inputMin ELSE input
        r2 == IF RGt(r1, inputMax) /\ extrapolateRight = "hold"
              THEN inputMax ELSE r1
    IN  IF outputMin = outputMax
        THEN outputMin
        ELSE RAdd(RMul(RDiv(RSub(r2, inputMin), RSub(inputMax, inputMin)),
                       RSub(outputMax, outputMin)),
                  outputMin)

\* interpolateFunction on one segment, with the two edge policies
InterpolateFunction(input, inputMin, inputMax, outputMin, outputMax, extrapolateLeft, extrapolateRight) ==
    LET r1 == IF RLt(input, inputMin) /\ extrapolateLeft = "clamp"
              THEN inputMin ELSE input
        r2 == IF RGt(r1, inputMax) /\ extrapolateRight = "clamp"
              THEN inputMax ELSE r1
    IN  IF outputMin = outputMax
        THEN outputMin
        ELSE RAdd(RMul(RDiv(RSub(r2, inputMin), RSub(inputMax, inputMin)),
                       RSub(outputMax, outputMin)),
                  outputMin)

\* interpolate() once the segment is found
InterpolateSegment(input, range, inputRange, outputRange, extrapolateLeft, extrapolateRight) ==
    InterpolateFunction(input,
                        inputRange[range + 1], inputRange[range + 2],
                        outputRange[range + 1], outputRange[range + 2],
                        extrapolateLeft, extrapolateRight)

Interpolate(input, inputRange, outputRange, extrapolateLeft, extrapolateRight) ==
    Value({InterpolateSegment(x, FindRange(x, inputRange, 1), inputRange, outputRange,
                              extrapolateLeft, extrapolateRight)
           : x \in {input}})

-----------------------------------------------------------------------------
(* remotion's spring(), as the components call it                           *)
(*                                                                         *)
(* The spring's position involves exp, sin, cos and sqrt.  The model       *)
(* evaluates them in fixed point with six decimals (FxOne stands for 1.0): *)
(* exp by a fourth-order Taylor polynomial on t/64 squared six times, sin  *)
(* and cos by Bhaskara's approximation on a thousandth of a half turn,     *)
(* sqrt to three decimals.  advance() propagates the exact solution of the *)
(* damped oscillator from one frame to the next, so the position after a   *)
(* run of steps is the closed form at the summed step times.               *)

FxOne == 1000 * 1000

FxMulAbs(x, y) ==
    LET x1 == x \div 1000
        x0 == x % 1000
        y1 == y \div 1000
        y0 == y % 1000
    IN  x1 * y1 + (x1 * y0 + x0 * y1) \div 1000 + (x0 * y0) \div FxOne

FxMul(a, b) ==
    Value({IF (p < 0) # (q < 0) THEN -FxMulAbs(Abs(p), Abs(q))
                             ELSE FxMulAbs(Abs(p), Abs(q))
           : p \in {a}, q \in {b}})

FxSquare(a) == Value({FxMulAbs(Abs(p), Abs(p)) : p \in {a}})

\* a rational to fixed point, by long division three decimals at a time
LongDivision(n, d) ==
    LET r1 == n % d
        r2 == (r1 * 1000) % d
    IN  (n \div d) * FxOne + ((r1 * 1000) \div d) * 1000 + (r2 * 1000) \div d

ToFx(r) ==
    Value({IF x[1] < 0
           THEN -LongDivision(Abs(x[1]) \div k, x[2] \div k)
           ELSE LongDivision(Abs(x[1]) \div k, x[2] \div k)
           : x \in {r}, k \in {r[2] \div FxOne + 1}})

FxToRat(v) == Rat(v, FxOne)

\* Math.sqrt of a non-negative rational, to three decimals
RECURSIVE SqrtIter(_, _)
SqrtIter(n, x) ==
    Value({IF y >= x THEN x ELSE SqrtIter(n, y) : y \in {(x + n \div x) \div 2}})

MathSqrt(r) ==
    Value({IF n = 0 THEN RInt(0) ELSE Rat(SqrtIter(n, n), 1000)
           : n \in {(r[1] * FxOne) \div r[2]}})

\* Math.exp(-t) for a fixed-point t >= 0
FxExpTaylor(y) ==
    Value({FxOne - x + x2 \div 2 - FxMul(x2, x) \div 6 + FxSquare(x2) \div 24
           : x \in {y}, x2 \in {FxSquare(y)}})

FxExpNeg(t) ==
    Value({IF x > 30 * FxOne
           THEN 0
           ELSE FxSquare(FxSquare(FxSquare(FxSquare(FxSquare(FxSquare(
                    FxExpTaylor(x \div 64)))))))
           : x \in {t}})

\* Math.sin of u thousandths of a half turn, u >= 0
Bhaskara(q) == ToFx(Rat(4 * q, 1250000 - q))

FxSin(u) ==
    Value({IF (x \div 1000) % 2 = 0
           THEN Bhaskara((x % 1000) * (1000 - (x % 1000)))
           ELSE -Bhaskara((x % 1000) * (1000 - (x % 1000)))
           : x \in {u}})

FxCos(u) == FxSin(u + 500)

\* defaultSpringConfig, with the fields the call sites override
SpringConfig(damping, mass, stiffness) ==
    [damping |-> damping, mass |-> mass, stiffness |-> stiffness]

\* the time in seconds the steps of springCalculation add up to: one
\* advance() per whole frame and a last one that takes the fractional rest
\* along, each step capped at 64 ms
ElapsedSeconds(frameClamped, framesPerSecond) ==
    LET cap == Rat(64, 1000)
        whole == frameClamped[1] \div frameClamped[2]
        unevenRest == RSub(frameClamped, RInt(whole))
        Capped(t) == IF RLt(cap, t) THEN cap ELSE t
        step == Capped(Rat(1, framesPerSecond))
    IN  IF whole = 0
        THEN Capped(RDiv(unevenRest, RInt(framesPerSecond)))
        ELSE RAdd(RMul(RInt(whole - 1), step),
                  Capped(RDiv(RAdd(RInt(1), unevenRest), RInt(framesPerSecond))))

\* advance() for zeta < 1: the position t seconds (fixed point) after the
\* start, from 0 at rest towards 1
UnderDamped(t, zetaOmega0, omega1) ==
    Value({FxOne - FxMul(underDampedEnvelope,
                         FxMul(FxSin(angle), ToFx(RDiv(zetaOmega0, omega1)))
                         + FxCos(angle))
           : underDampedEnvelope \in {FxExpNeg(FxMul(ToFx(zetaOmega0), t))},
             angle \in {(FxMul(ToFx(omega1), t) * 7) \div 22000}})

\* advance() otherwise: the critically damped formula
CriticallyDamped(t, omega0) ==
    Value({FxOne - FxMul(FxExpNeg(tau), FxOne + tau)
           : tau \in {FxMul(ToFx(omega0), t)}})

\* the position advance() reaches t seconds after the start; zeta is
\* c / (2 * sqrt(k * m)), omega0 sqrt(k / m), omega1 omega0 * sqrt(1 - zeta^2)
SpringPosition(t, config) ==
    Value({IF RLt(zeta2, RInt(1))
           THEN UnderDamped(t, RDiv(Rat(config.damping, 2), config.mass),
                            RMul(omega0, MathSqrt(RSub(RInt(1), zeta2))))
           ELSE CriticallyDamped(t, omega0)
           : omega0 \in {MathSqrt(RDiv(RInt(config.stiffness), config.mass))},
             zeta2 \in {RDiv(RInt(config.damping * config.damping),
                             RMul(RInt(4 * config.stiffness), config.mass))}})

\* springCalculation from 0 to 1: the position (fixed point) at a frame
springCalculation(f, framesPerSecond, config) ==
    Value({SpringPosition(ToFx(ElapsedSeconds(frameClamped, framesPerSecond)), config)
           : frameClamped \in {IF RLt(f, RInt(0)) THEN RInt(0) ELSE f}})

\* measureSpring: the frame from which the spring stays within the rest
\* threshold 0.005 of its target for twenty frames
SpringAtRest(n, framesPerSecond, config) ==
    Abs(springCalculation(RInt(n), framesPerSecond, config) - FxOne) < FxOne \div 200

\* the for loop: frame n + 1 is computed in the pass that starts with i
RECURSIVE MeasureStays(_, _, _, _, _)
MeasureStays(n, i, finishedFrame, framesPerSecond, config) ==
    IF i >= 20
    THEN finishedFrame
    ELSE IF SpringAtRest(n + 1, framesPerSecond, config)
         THEN MeasureStays(n + 1, i + 1, finishedFrame, framesPerSecond, config)
         ELSE MeasureStays(n + 1, 1, n + 2, framesPerSecond, config)

\* the while loop
RECURSIVE MeasureFirst(_, _, _)
MeasureFirst(n, framesPerSecond, config) ==
    IF SpringAtRest(n, framesPerSecond, config)
    THEN n
    ELSE MeasureFirst(n + 1, framesPerSecond, config)

measureSpring(framesPerSecond, config) ==
    Value({MeasureStays(first, 0, first, framesPerSecond, config)
           : first \in {MeasureFirst(0, framesPerSecond, config)}})

\* measureSpring depends on fps and config alone: its values for the
\* configs the components pass, computed once
SpringConfigs ==
    {SpringConfig(200, RInt(1), 100), SpringConfig(100, RInt(1), 100),
     SpringConfig(100, RInt(1), 80), SpringConfig(100, Rat(1, 2), 100),
     SpringConfig(15, RInt(1), 100)}

NaturalDuration ==
    [framesPerSecond \in FpsValues, config \in SpringConfigs |->
        measureSpring(framesPerSecond, config)]

\* spring({frame, fps, config, durationInFrames}): the curve is stretched so
\* that its natural duration fills durationInFrames, and is cut to the
\* target past it
spring(f, framesPerSecond, config, duration) ==
    Value({IF RGt(x, d)
           THEN RInt(1)
           ELSE FxToRat(springCalculation(
                    RDiv(x, RDiv(d, RInt(NaturalDuration[framesPerSecond, config]))),
                    framesPerSecond, config))
           : x \in {f}, d \in {duration}})

-----------------------------------------------------------------------------
(* ParfumSaraVideo: scene lengths and the audio envelope *)

introSceneDuration == 8 * fps
\* the 15 seconds the scene's comments still speak of
showcaseDuration_FifteenSeconds == 15 * fps
showcaseDuration == 34 * fps
outroDuration == 8 * fps
\* a transition twice as long
transitionDuration_TwoSeconds == 2 * fps
transitionDuration == 1 * fps

audioFadeInDuration == 2 * fps
audioFadeOutStart == durationInFrames - 3 * fps

\* the target gain 0.7
TargetVolume == Rat(7, 10)

\* a fade-in that ramps to full gain instead of the target
AudioVolume_FullGainFadeIn(f) ==
    IF f < audioFadeInDuration
    THEN Interpolate(RInt(f), <<RInt(0), RInt(audioFadeInDuration)>>,
                     <<RInt(0), RInt(1)>>, "extend", "clamp")
    ELSE IF f >= audioFadeOutStart
    THEN Interpolate(RInt(f), <<RInt(audioFadeOutStart), RInt(durationInFrames)>>,
                     <<TargetVolume, RInt(0)>>, "clamp", "clamp")
    ELSE TargetVolume

\* the volume={(f) => ...} callback of <Audio>
AudioVolume(f) ==
    IF f < audioFadeInDuration
    THEN Interpolate(RInt(f), <<RInt(0), RInt(audioFadeInDuration)>>,
                     <<RInt(0), TargetVolume>>, "extend", "clamp")
    ELSE IF f >= audioFadeOutStart
    THEN Interpolate(RInt(f), <<RInt(audioFadeOutStart), RInt(durationInFrames)>>,
                     <<TargetVolume, RInt(0)>>, "clamp", "clamp")
    ELSE TargetVolume

\* a fade-out that starts where the audio ends
AudioCalls_NoFadeOut(f) ==
    IF f < audioFadeInDuration
    THEN {Call("audio fade-in", <<RInt(0), RInt(audioFadeInDuration)>>,
               <<RInt(0), TargetVolume>>)}
    ELSE IF f >= audioFadeOutStart
    THEN {Call("audio fade-out", <<RInt(durationInFrames), RInt(durationInFrames)>>,
               <<TargetVolume, RInt(0)>>)}
    ELSE {}

\* the interpolate() call the volume callback makes at frame f
AudioCalls(f) ==
    IF f < audioFadeInDuration
    THEN {Call("audio fade-in", <<RInt(0), RInt(audioFadeInDuration)>>,
               <<RInt(0), TargetVolume>>)}
    ELSE IF f >= audioFadeOutStart
    THEN {Call("audio fade-out", <<RInt(audioFadeOutStart), RInt(durationInFrames)>>,
               <<TargetVolume, RInt(0)>>)}
    ELSE {}

\* the three <TransitionSeries.Sequence> children, in order:
\* 1 the intro, 2 the showcase, 3 the outro
SceneDuration(k) ==
    CASE k = 1 -> introSceneDuration
      [] k = 2 -> showcaseDuration
      [] k = 3 -> outroDuration

\* <TransitionSeries>: a sequence after a transition starts while the one
\* before it is still running, transitionDuration frames before its end
RECURSIVE SceneFrom(_)
SceneFrom(k) ==
    IF k = 1 THEN 0
    ELSE SceneFrom(k - 1) + SceneDuration(k - 1) - transitionDuration

SceneEnd(k) == SceneFrom(k) + SceneDuration(k)

\* the sequences mounted at global frame f
ActiveScenes(f) == {k \in 1..3 : SceneFrom(k) <= f /\ f < SceneEnd(k)}

-----------------------------------------------------------------------------
(* ProductShowcase: one TextSlide per showcase text *)

Null == [kind |-> "null"]

\* a slot that still holds its end frame: frame <= slideEnd
TextSlide_InclusiveEnd(index, f, framesPerSecond) ==
    LET slideDuration == Rat(68 * framesPerSecond, 10)
        animationDuration == Rat(5 * framesPerSecond, 10)
        slideStart == RMul(RInt(index), slideDuration)
        slideEnd == RAdd(slideStart, slideDuration)
    IN  Value({IF ~isActive
           THEN Null
           ELSE [kind |-> "div", localFrame |-> localFrame,
                      entranceProgress |-> entranceProgress,
                      opacity |-> RMul(entranceProgress, exitOpacity),
                      translateY |->
                          Interpolate(entranceProgress, <<RInt(0), RInt(1)>>,
                                      <<RInt(30), RInt(0)>>, "extend", "extend"),
                      exitOpacity |-> exitOpacity]
           : isActive \in {RGe(RInt(f), slideStart) /\ RLe(RInt(f), slideEnd)},
             localFrame \in {RSub(RInt(f), slideStart)},
             entranceProgress \in
                 {spring(RSub(RInt(f), slideStart), framesPerSecond,
                         SpringConfig(100, Rat(1, 2), 100), animationDuration)},
             exitOpacity \in
                 {Interpolate(RSub(RInt(f), slideStart),
                              <<RSub(slideDuration, animationDuration), slideDuration>>,
                              <<RInt(1), RInt(0)>>, "clamp", "clamp")}})

\* no early return: a fully transparent div outside the slot
TextSlide_NoEarlyReturn(index, f, framesPerSecond) ==
    LET slideDuration == Rat(68 * framesPerSecond, 10)
        animationDuration == Rat(5 * framesPerSecond, 10)
        slideStart == RMul(RInt(index), slideDuration)
        slideEnd == RAdd(slideStart, slideDuration)
    IN  Value({[kind |-> "div", localFrame |-> localFrame,
                 entranceProgress |-> entranceProgress,
                 opacity |-> RMul(entranceProgress, exitOpacity),
                 translateY |->
                     Interpolate(entranceProgress, <<RInt(0), RInt(1)>>,
                                 <<RInt(30), RInt(0)>>, "extend", "extend"),
                 exitOpacity |-> IF isActive THEN exitOpacity ELSE RInt(0)]
           : isActive \in {RGe(RInt(f), slideStart) /\ RLt(RInt(f), slideEnd)},
             localFrame \in {RSub(RInt(f), slideStart)},
             entranceProgress \in
                 {spring(RSub(RInt(f), slideStart), framesPerSecond,
                         SpringConfig(100, Rat(1, 2), 100), animationDuration)},
             exitOpacity \in
                 {Interpolate(RSub(RInt(f), slideStart),
                              <<RSub(slideDuration, animationDuration), slideDuration>>,
                              <<RInt(1), RInt(0)>>, "clamp", "clamp")}})

\* the exit fade spread over the whole slot instead of its last half second
TextSlide_FadesWholeSlot(index, f, framesPerSecond) ==
    LET slideDuration == Rat(68 * framesPerSecond, 10)
        animationDuration == Rat(5 * framesPerSecond, 10)
        slideStart == RMul(RInt(index), slideDuration)
        slideEnd == RAdd(slideStart, slideDuration)
    IN  Value({IF ~isActive
           THEN Null
           ELSE [kind |-> "div", localFrame |-> localFrame,
                      entranceProgress |-> entranceProgress,
                      opacity |-> RMul(entranceProgress, exitOpacity),
                      translateY |->
                          Interpolate(entranceProgress, <<RInt(0), RInt(1)>>,
                                      <<RInt(30), RInt(0)>>, "extend", "extend"),
                      exitOpacity |-> exitOpacity]
           : isActive \in {RGe(RInt(f), slideStart) /\ RLt(RInt(f), slideEnd)},
             localFrame \in {RSub(RInt(f), slideStart)},
             entranceProgress \in
                 {spring(RSub(RInt(f), slideStart), framesPerSecond,
                         SpringConfig(100, Rat(1, 2), 100), animationDuration)},
             exitOpacity \in
                 {Interpolate(RSub(RInt(f), slideStart),
                              <<RInt(0), slideDuration>>,
                              <<RInt(1), RInt(0)>>, "clamp", "clamp")}})

\* TextSlide(index, frame, fps): null outside its slot, else the styled div
TextSlide(index, f, framesPerSecond) ==
    LET slideDuration == Rat(68 * framesPerSecond, 10)
        animationDuration == Rat(5 * framesPerSecond, 10)
        slideStart == RMul(RInt(index), slideDuration)
        slideEnd == RAdd(slideStart, slideDuration)
    IN  Value({IF ~isActive
           THEN Null
           ELSE [kind |-> "div", localFrame |-> localFrame,
                      entranceProgress |-> entranceProgress,
                      opacity |-> RMul(entranceProgress, exitOpacity),
                      translateY |->
                          Interpolate(entranceProgress, <<RInt(0), RInt(1)>>,
                                      <<RInt(30), RInt(0)>>, "extend", "extend"),
                      exitOpacity |-> exitOpacity]
           : isActive \in {RGe(RInt(f), slideStart) /\ RLt(RInt(f), slideEnd)},
             localFrame \in {RSub(RInt(f), slideStart)},
             entranceProgress \in
                 {spring(RSub(RInt(f), slideStart), framesPerSecond,
                         SpringConfig(100, Rat(1, 2), 100), animationDuration)},
             exitOpacity \in
                 {Interpolate(RSub(RInt(f), slideStart),
                              <<RSub(slideDuration, animationDuration), slideDuration>>,
                              <<RInt(1), RInt(0)>>, "clamp", "clamp")}})

\* the interpolate() calls of TextSlide: none before the early return
TextSlideCalls(index, f, framesPerSecond) ==
    IF ~(/\ RGe(RInt(f), RMul(RInt(index), Rat(68 * framesPerSecond, 10)))
         /\ RLt(RInt(f), RMul(RInt(index + 1), Rat(68 * framesPerSecond, 10))))
    THEN {}
    ELSE {Call("text-slide exit",
               <<RSub(Rat(68 * framesPerSecond, 10), Rat(5 * framesPerSecond, 10)),
                 Rat(68 * framesPerSecond, 10)>>,
               <<RInt(1), RInt(0)>>),
          Call("text-slide translateY", <<RInt(0), RInt(1)>>, <<RInt(30), RInt(0)>>)}

ProductShowcaseTextCalls(n, f, framesPerSecond) ==
    UNION {TextSlideCalls(i - 1, f, framesPerSecond) : i \in 1..n}

\* showcaseTexts.map((text, index) => <TextSlide .../>) at local frame f
ProductShowcase(n, f, framesPerSecond) ==
    [i \in 1..n |-> TextSlide(i - 1, f, framesPerSecond)]

\* what the showcase sequence shows at global frame f (its children see the
\* frame relative to the sequence's start)
ShowcaseAt(f) ==
    IF 2 \in ActiveScenes(f)
    THEN ProductShowcase(showcaseTexts, f - SceneFrom(2), fps)
    ELSE <<>>

\* indices (0-based) of the slides that emitted an element
Emitting(s) == {i \in 0..(Len(s) - 1) : s[i + 1].kind = "div"}

-----------------------------------------------------------------------------
(* The scene components: what each computes from its frame *)

MathMax(a, b) == Value({IF RLt(x, y) THEN y ELSE x : x \in {a}, y \in {b}})

\* the image part of ProductShowcase at local frame f; sceneFrames is the
\* durationInFrames useVideoConfig() reports inside the scene's sequence
ProductImage(f, framesPerSecond, sceneFrames) ==
    LET imageEntrance ==
            spring(RInt(f), framesPerSecond, SpringConfig(100, RInt(1), 100),
                   RInt(2 * framesPerSecond))
    IN  [imageEntrance |-> imageEntrance,
         imageScale |->
            Interpolate(imageEntrance, <<RInt(0), RInt(1)>>,
                        <<Rat(7, 10), RInt(1)>>, "extend", "extend"),
         floatOffset |->
            Interpolate(RInt(f),
                        <<RInt(0), Rat(sceneFrames, 2), RInt(sceneFrames)>>,
                        <<RInt(0), RInt(-15), RInt(0)>>, "extend", "clamp"),
         glowIntensity |->
            Interpolate(RInt(f),
                        [k \in 1..8 |-> RInt(framesPerSecond * 2 * (k - 1))],
                        [k \in 1..8 |-> IF k % 2 = 1 THEN Rat(2, 10) ELSE Rat(5, 10)],
                        "extend", "clamp"),
         rotation |->
            Interpolate(RInt(f), <<RInt(0), RInt(sceneFrames)>>,
                        <<RInt(-2), RInt(2)>>, "extend", "clamp")]

\* the tagline entering half a second after the start instead of one
IntroScene_TaglineHalfSecond(f, framesPerSecond) ==
    LET brandSpring ==
            spring(RInt(f), framesPerSecond, SpringConfig(200, RInt(1), 100),
                   RInt(2 * framesPerSecond))
        taglineSpring ==
            spring(RSub(RInt(f), Rat(5 * framesPerSecond, 10)), framesPerSecond,
                   SpringConfig(200, RInt(1), 100), Rat(15 * framesPerSecond, 10))
        lineProgress ==
            spring(RInt(f - 2 * framesPerSecond), framesPerSecond,
                   SpringConfig(100, RInt(1), 80), RInt(2 * framesPerSecond))
    IN  [brandSpring |-> brandSpring,
         brandScale |->
            Interpolate(brandSpring, <<RInt(0), RInt(1)>>,
                        <<Rat(8, 10), RInt(1)>>, "extend", "extend"),
         taglineSpring |-> taglineSpring,
         taglineOpacity |-> MathMax(RInt(0), taglineSpring),
         taglineTranslateY |->
            Interpolate(MathMax(RInt(0), taglineSpring), <<RInt(0), RInt(1)>>,
                        <<RInt(30), RInt(0)>>, "extend", "extend"),
         lineProgress |-> lineProgress,
         lineWidth |->
            Interpolate(MathMax(RInt(0), lineProgress), <<RInt(0), RInt(1)>>,
                        <<RInt(0), RInt(200)>>, "extend", "extend"),
         lineOpacity |-> MathMax(RInt(0), lineProgress)]

IntroScene(f, framesPerSecond) ==
    LET brandSpring ==
            spring(RInt(f), framesPerSecond, SpringConfig(200, RInt(1), 100),
                   RInt(2 * framesPerSecond))
        taglineSpring ==
            spring(RInt(f - 1 * framesPerSecond), framesPerSecond,
                   SpringConfig(200, RInt(1), 100), Rat(15 * framesPerSecond, 10))
        lineProgress ==
            spring(RInt(f - 2 * framesPerSecond), framesPerSecond,
                   SpringConfig(100, RInt(1), 80), RInt(2 * framesPerSecond))
    IN  [brandSpring |-> brandSpring,
         brandScale |->
            Interpolate(brandSpring, <<RInt(0), RInt(1)>>,
                        <<Rat(8, 10), RInt(1)>>, "extend", "extend"),
         taglineSpring |-> taglineSpring,
         taglineOpacity |-> MathMax(RInt(0), taglineSpring),
         taglineTranslateY |->
            Interpolate(MathMax(RInt(0), taglineSpring), <<RInt(0), RInt(1)>>,
                        <<RInt(30), RInt(0)>>, "extend", "extend"),
         lineProgress |-> lineProgress,
         lineWidth |->
            Interpolate(MathMax(RInt(0), lineProgress), <<RInt(0), RInt(1)>>,
                        <<RInt(0), RInt(200)>>, "extend", "extend"),
         lineOpacity |-> MathMax(RInt(0), lineProgress)]

\* the call to action given three seconds to settle instead of one and a half
OutroScene_CtaThreeSeconds(f, framesPerSecond, sceneFrames) ==
    LET brandSpring ==
            spring(RInt(f), framesPerSecond, SpringConfig(100, RInt(1), 100),
                   RInt(2 * framesPerSecond))
        ctaSpring ==
            spring(RInt(f - 1 * framesPerSecond), framesPerSecond,
                   SpringConfig(200, RInt(1), 100), RInt(3 * framesPerSecond))
        fadeOutStart == sceneFrames - 2 * framesPerSecond
    IN  [brandSpring |-> brandSpring,
         brandScale |->
            Interpolate(brandSpring, <<RInt(0), RInt(1)>>,
                        <<Rat(8, 10), RInt(1)>>, "extend", "extend"),
         ctaSpring |-> ctaSpring,
         ctaOpacity |-> MathMax(RInt(0), ctaSpring),
         ctaTranslateY |->
            Interpolate(MathMax(RInt(0), ctaSpring), <<RInt(0), RInt(1)>>,
                        <<RInt(30), RInt(0)>>, "extend", "extend"),
         pulsePhase |->
            Interpolate(RInt(f),
                        [k \in 1..5 |-> RInt(framesPerSecond * (k - 1))],
                        [k \in 1..5 |-> IF k % 2 = 1 THEN RInt(1) ELSE Rat(103, 100)],
                        "extend", "extend"),
         glowIntensity |->
            Interpolate(RInt(f),
                        [k \in 1..4 |-> RInt(framesPerSecond * 2 * (k - 1))],
                        [k \in 1..4 |-> IF k % 2 = 1 THEN Rat(3, 10) ELSE Rat(6, 10)],
                        "extend", "extend"),
         fadeOutProgress |->
            Interpolate(RInt(f), <<RInt(fadeOutStart), RInt(sceneFrames)>>,
                        <<RInt(1), RInt(0)>>, "clamp", "clamp")]

\* OutroScene at local frame f; sceneFrames as in ProductImage
OutroScene(f, framesPerSecond, sceneFrames) ==
    LET brandSpring ==
            spring(RInt(f), framesPerSecond, SpringConfig(100, RInt(1), 100),
                   RInt(2 * framesPerSecond))
        ctaSpring ==
            spring(RInt(f - 1 * framesPerSecond), framesPerSecond,
                   SpringConfig(200, RInt(1), 100), Rat(15 * framesPerSecond, 10))
        fadeOutStart == sceneFrames - 2 * framesPerSecond
    IN  [brandSpring |-> brandSpring,
         brandScale |->
            Interpolate(brandSpring, <<RInt(0), RInt(1)>>,
                        <<Rat(8, 10), RInt(1)>>, "extend", "extend"),
         ctaSpring |-> ctaSpring,
         ctaOpacity |-> MathMax(RInt(0), ctaSpring),
         ctaTranslateY |->
            Interpolate(MathMax(RInt(0), ctaSpring), <<RInt(0), RInt(1)>>,
                        <<RInt(30), RInt(0)>>, "extend", "extend"),
         pulsePhase |->
            Interpolate(RInt(f),
                        [k \in 1..5 |-> RInt(framesPerSecond * (k - 1))],
                        [k \in 1..5 |-> IF k % 2 = 1 THEN RInt(1) ELSE Rat(103, 100)],
                        "extend", "extend"),
         glowIntensity |->
            Interpolate(RInt(f),
                        [k \in 1..4 |-> RInt(framesPerSecond * 2 * (k - 1))],
                        [k \in 1..4 |-> IF k % 2 = 1 THEN Rat(3, 10) ELSE Rat(6, 10)],
                        "extend", "extend"),
         fadeOutProgress |->
            Interpolate(RInt(f), <<RInt(fadeOutStart), RInt(sceneFrames)>>,
                        <<RInt(1), RInt(0)>>, "clamp", "clamp")]

\* the glow taken at the scene's frame, not at the item's shifted one
FeatureItem_GlowUnshifted(index, f, framesPerSecond) ==
    LET delay == Rat((15 + index * 20) * framesPerSecond, 10)
        itemSpring ==
            spring(RSub(RInt(f), delay), framesPerSecond,
                   SpringConfig(15, RInt(1), 100), Rat(15 * framesPerSecond, 10))
        progress == MathMax(RInt(0), itemSpring)
    IN  [delay |-> delay,
         itemSpring |-> itemSpring,
         opacity |-> progress,
         translateX |->
            Interpolate(progress, <<RInt(0), RInt(1)>>,
                        <<RInt(-50), RInt(0)>>, "extend", "extend"),
         glowOpacity |->
            Interpolate(RInt(f),
                        <<RInt(0), Rat(5 * framesPerSecond, 10),
                          Rat(15 * framesPerSecond, 10)>>,
                        <<RInt(0), Rat(8, 10), RInt(0)>>, "clamp", "clamp")]

\* FeatureItem: the item of 0-based index at the scene's frame f
FeatureItem(index, f, framesPerSecond) ==
    LET delay == Rat((15 + index * 20) * framesPerSecond, 10)
        itemSpring ==
            spring(RSub(RInt(f), delay), framesPerSecond,
                   SpringConfig(15, RInt(1), 100), Rat(15 * framesPerSecond, 10))
        progress == MathMax(RInt(0), itemSpring)
    IN  [delay |-> delay,
         itemSpring |-> itemSpring,
         opacity |-> progress,
         translateX |->
            Interpolate(progress, <<RInt(0), RInt(1)>>,
                        <<RInt(-50), RInt(0)>>, "extend", "extend"),
         glowOpacity |->
            Interpolate(RSub(RInt(f), delay),
                        <<RInt(0), Rat(5 * framesPerSecond, 10),
                          Rat(15 * framesPerSecond, 10)>>,
                        <<RInt(0), Rat(8, 10), RInt(0)>>, "clamp", "clamp")]

\* FeaturesScene with n features at frame f
FeaturesScene(n, f, framesPerSecond) ==
    LET titleSpring ==
            spring(RInt(f), framesPerSecond, SpringConfig(200, RInt(1), 100),
                   Rat(15 * framesPerSecond, 10))
        lineSpring ==
            spring(RSub(RInt(f), Rat(5 * framesPerSecond, 10)), framesPerSecond,
                   SpringConfig(100, RInt(1), 100), RInt(1 * framesPerSecond))
    IN  [titleOpacity |-> titleSpring,
         titleTranslateY |->
            Interpolate(titleSpring, <<RInt(0), RInt(1)>>,
                        <<RInt(-30), RInt(0)>>, "extend", "extend"),
         lineSpring |-> lineSpring,
         lineWidth |->
            Interpolate(MathMax(RInt(0), lineSpring), <<RInt(0), RInt(1)>>,
                        <<RInt(0), RInt(120)>>, "extend", "extend"),
         items |-> [i \in 1..n |-> FeatureItem(i - 1, f, framesPerSecond)]]

\* the interpolate() calls of the scene components
ProductImageCalls(framesPerSecond, sceneFrames) ==
    {Call("showcase imageScale", <<RInt(0), RInt(1)>>, <<Rat(7, 10), RInt(1)>>),
     Call("showcase float",
          <<RInt(0), Rat(sceneFrames, 2), RInt(sceneFrames)>>,
          <<RInt(0), RInt(-15), RInt(0)>>),
     Call("showcase glow",
          [k \in 1..8 |-> RInt(framesPerSecond * 2 * (k - 1))],
          [k \in 1..8 |-> IF k % 2 = 1 THEN Rat(2, 10) ELSE Rat(5, 10)]),
     Call("showcase rotation", <<RInt(0), RInt(sceneFrames)>>,
          <<RInt(-2), RInt(2)>>)}

IntroSceneCalls ==
    {Call("intro brandScale", <<RInt(0), RInt(1)>>, <<Rat(8, 10), RInt(1)>>),
     Call("intro taglineTranslateY", <<RInt(0), RInt(1)>>, <<RInt(30), RInt(0)>>),
     Call("intro lineWidth", <<RInt(0), RInt(1)>>, <<RInt(0), RInt(200)>>)}

OutroSceneCalls(framesPerSecond, sceneFrames) ==
    {Call("outro brandScale", <<RInt(0), RInt(1)>>, <<Rat(8, 10), RInt(1)>>),
     Call("outro ctaTranslateY", <<RInt(0), RInt(1)>>, <<RInt(30), RInt(0)>>),
     Call("outro pulse",
          [k \in 1..5 |-> RInt(framesPerSecond * (k - 1))],
          [k \in 1..5 |-> IF k % 2 = 1 THEN RInt(1) ELSE Rat(103, 100)]),
     Call("outro glow",
          [k \in 1..4 |-> RInt(framesPerSecond * 2 * (k - 1))],
          [k \in 1..4 |-> IF k % 2 = 1 THEN Rat(3, 10) ELSE Rat(6, 10)]),
     Call("outro fade-out",
          <<RInt(sceneFrames - 2 * framesPerSecond), RInt(sceneFrames)>>,
          <<RInt(1), RInt(0)>>)}

FeatureItemCalls(framesPerSecond) ==
    {Call("feature translateX", <<RInt(0), RInt(1)>>, <<RInt(-50), RInt(0)>>),
     Call("feature glow",
          <<RInt(0), Rat(5 * framesPerSecond, 10), Rat(15 * framesPerSecond, 10)>>,
          <<RInt(0), Rat(8, 10), RInt(0)>>)}

FeaturesSceneCalls(n, framesPerSecond) ==
    {Call("features titleTranslateY", <<RInt(0), RInt(1)>>, <<RInt(-30), RInt(0)>>),
     Call("features lineWidth", <<RInt(0), RInt(1)>>, <<RInt(0), RInt(120)>>)}
    \cup UNION {FeatureItemCalls(framesPerSecond) : i \in 1..n}

BackgroundGradientCalls(totalFrames) ==
    {Call("background angle", <<RInt(0), RInt(totalFrames)>>,
          <<RInt(135), RInt(225)>>),
     Call("background shimmer",
          <<RInt(0), Rat(totalFrames, 4), Rat(totalFrames, 2),
            Rat(3 * totalFrames, 4), RInt(totalFrames)>>,
          <<Rat(5, 100), Rat(1, 10), Rat(5, 100), Rat(1, 10), Rat(5, 100)>>)}

\* BackgroundGradient at frame f of a composition of totalFrames frames
BackgroundGradient(f, totalFrames) ==
    [gradientAngle |->
        Interpolate(RInt(f), <<RInt(0), RInt(totalFrames)>>,
                    <<RInt(135), RInt(225)>>, "extend", "clamp"),
     shimmerOpacity |->
        Interpolate(RInt(f),
                    <<RInt(0), Rat(totalFrames, 4), Rat(totalFrames, 2),
                      Rat(3 * totalFrames, 4), RInt(totalFrames)>>,
                    <<Rat(5, 100), Rat(1, 10), Rat(5, 100), Rat(1, 10), Rat(5, 100)>>,
                    "extend", "clamp")]

-----------------------------------------------------------------------------
(* The renderer evaluating the composition frame by frame *)

\* the scenes of the series at global frame f: a mounted scene's hooks see the
\* frame relative to its sequence's start and the sequence's length as
\* durationInFrames
IntroAt(f) ==
    IF 1 \in ActiveScenes(f)
    THEN IntroScene(f - SceneFrom(1), fps)
    ELSE Null

ImageAt(f) ==
    IF 2 \in ActiveScenes(f)
    THEN ProductImage(f - SceneFrom(2), fps, SceneDuration(2))
    ELSE Null

\* the outro handed the composition's durationInFrames instead of its
\* sequence's
OutroAt_CompositionDuration(f) ==
    IF 3 \in ActiveScenes(f)
    THEN OutroScene(f - SceneFrom(3), fps, durationInFrames)
    ELSE Null

OutroAt(f) ==
    IF 3 \in ActiveScenes(f)
    THEN OutroScene(f - SceneFrom(3), fps, SceneDuration(3))
    ELSE Null

\* animation state carried from frame to frame: the components advance
\* from where the last request left them, whatever frame is asked for
Evaluate_CarriesState(f) ==
    /\ frame' = f
    /\ volume' = AudioVolume(frame + 1)
    /\ activeScenes' = ActiveScenes(f)
    /\ slides' = ShowcaseAt(frame + 1)
    /\ intro' = IntroAt(frame + 1)
    /\ image' = ImageAt(frame + 1)
    /\ outro' = OutroAt(frame + 1)
    /\ background' = BackgroundGradient(frame + 1, durationInFrames)
    /\ UNCHANGED <<fps, durationInFrames, showcaseTexts,
                   particleCount, particles, earlier, features, featureScene>>

\* one frame request: every component is called with useCurrentFrame() = f
Evaluate(f) ==
    /\ frame' = f
    /\ volume' = AudioVolume(f)
    /\ activeScenes' = ActiveScenes(f)
    /\ slides' = ShowcaseAt(f)
    /\ intro' = IntroAt(f)
    /\ image' = ImageAt(f)
    /\ outro' = OutroAt(f)
    /\ background' = BackgroundGradient(f, durationInFrames)
    /\ UNCHANGED <<fps, durationInFrames, showcaseTexts,
                   particleCount, particles, earlier, features, featureScene>>

Init ==
    /\ fps \in FpsValues
    /\ durationInFrames = 50 * fps
    /\ showcaseTexts = DefaultShowcaseTexts
    /\ frame = 0
    /\ volume = AudioVolume(0)
    /\ activeScenes = ActiveScenes(0)
    /\ slides = ShowcaseAt(0)
    /\ intro = IntroAt(0)
    /\ image = ImageAt(0)
    /\ outro = OutroAt(0)
    /\ background = BackgroundGradient(0, durationInFrames)
    /\ particleCount = 0
    /\ particles = <<>>
    /\ earlier = <<>>
    /\ features = 0
    /\ featureScene = Null

\* the render loop: the next frame
RenderNextFrame ==
    /\ frame + 1 < durationInFrames
    /\ Evaluate(frame + 1)

\* preview scrubbing: an earlier frame again
Scrub ==
    \E k \in 1..MaxScrub :
        /\ frame - k >= 0
        /\ Evaluate(frame - k)

Next == RenderNextFrame \/ Scrub

Spec == Init /\ [][Next]_vars

-----------------------------------------------------------------------------
(* TextSlide on its own: any number of texts, frames outside the scene too *)

\* first integer frame at or after the end of the last slot
LastSlotEnd == (68 * fps * showcaseTexts + 9) \div 10

InitTextSlide ==
    /\ fps \in FpsValues
    /\ durationInFrames = 50 * fps
    /\ showcaseTexts \in 0..MaxTexts
    /\ frame = -FrameMargin
    /\ volume = TargetVolume
    /\ activeScenes = {2}
    /\ slides = ProductShowcase(showcaseTexts, -FrameMargin, fps)
    /\ particleCount = 0
    /\ particles = <<>>
    /\ earlier = <<>>
    /\ intro = Null
    /\ image = Null
    /\ outro = Null
    /\ background = Null
    /\ features = 0
    /\ featureScene = Null

\* the showcase's texts evaluated at the next frame
EvaluateTextSlides ==
    /\ frame < LastSlotEnd + FrameMargin
    /\ frame' = frame + 1
    /\ slides' = ProductShowcase(showcaseTexts, frame + 1, fps)
    /\ UNCHANGED <<fps, durationInFrames, volume, activeScenes, showcaseTexts,
                   particleCount, particles, earlier, sceneVars>>

NextTextSlide == EvaluateTextSlides

SpecTextSlide == InitTextSlide /\ [][NextTextSlide]_vars

-----------------------------------------------------------------------------
(* The scene components on their own, each in a sequence of eight seconds: *)
(* FeaturesScene is exported but no composition mounts it                  *)

SceneFrames == 8 * fps

InitScenes ==
    /\ fps \in FpsValues
    /\ durationInFrames = SceneFrames
    /\ showcaseTexts = 0
    /\ frame = 0
    /\ volume = TargetVolume
    /\ activeScenes = {}
    /\ slides = <<>>
    /\ particleCount = 0
    /\ particles = <<>>
    /\ earlier = <<>>
    /\ intro = IntroScene(0, fps)
    /\ image = Null
    /\ outro = OutroScene(0, fps, SceneFrames)
    /\ background = Null
    /\ features \in 0..MaxFeatures
    /\ featureScene = FeaturesScene(features, 0, fps)

\* the three scenes evaluated at the next frame
EvaluateScenes ==
    /\ frame + 1 < SceneFrames
    /\ frame' = frame + 1
    /\ intro' = IntroScene(frame + 1, fps)
    /\ outro' = OutroScene(frame + 1, fps, SceneFrames)
    /\ featureScene' = FeaturesScene(features, frame + 1, fps)
    /\ UNCHANGED <<fps, durationInFrames, volume, activeScenes, showcaseTexts,
                   slides, particleCount, particles, earlier, image,
                   background, features>>

NextScenes == EvaluateScenes

SpecScenes == InitScenes /\ [][NextScenes]_vars

-----------------------------------------------------------------------------
(* SparklingParticles: the seeded generator and the memoized particle list *)

\* Math.PI and Math.sin are the host's; sin is transcendental, so the model
\* evaluates Bhaskara's rational approximation 16p(1-p)/(5-4p(1-p)) of
\* sin(p*pi) on the half turn the angle falls in, with pi = 22/7.  It is a
\* function of the angle alone, odd about each half turn, with range [-1, 1].
MathPI == Rat(22, 7)

MathSin(a) ==
    LET half == 22 * a[2]
        r == (7 * a[1]) % (2 * half)
        up == r < half
        t == IF up THEN r ELSE r - half
        q == t * (half - t)
        v == Rat(16 * q, 5 * half * half - 4 * q)
    IN  IF up THEN v ELSE <<-v[1], v[2]>>

\* Math.floor: the largest integer not above r
MathFloor(r) == r[1] \div r[2]

\* truncation towards zero where the code takes the floor
seededRandom_Truncating(seed) ==
    LET x == RMul(MathSin(RMul(seed, RInt(9999))), RInt(10000))
        t == IF x[1] < 0 THEN -((-x[1]) \div x[2]) ELSE x[1] \div x[2]
    IN  RSub(x, RInt(t))

seededRandom(seed) ==
    LET x == RMul(MathSin(RMul(seed, RInt(9999))), RInt(10000))
    IN  RSub(x, RInt(MathFloor(x)))

\* the object literal pushed for index i
NewParticle(i) ==
    [id |-> i,
     x |-> RMul(seededRandom(Rat(i * 11, 10)), RInt(100)),
     y |-> RAdd(RInt(40), RMul(seededRandom(Rat(i * 22, 10)), RInt(80))),
     size |-> RAdd(RInt(2), RMul(seededRandom(Rat(i * 33, 10)), RInt(4))),
     speed |-> RAdd(Rat(1, 2), RMul(seededRandom(Rat(i * 44, 10)), Rat(3, 2))),
     delay |-> RMul(seededRandom(Rat(i * 55, 10)), RInt(90)),
     twinkleSpeed |->
        RAdd(Rat(1, 2), RMul(seededRandom(Rat(i * 66, 10)), Rat(3, 2))),
     twinklePhase |->
        RMul(RMul(seededRandom(Rat(i * 77, 10)), MathPI), RInt(2))]

\* a generator whose seeds also take in the requested count
RECURSIVE GenerateLoop_CountSeeded(_, _, _)
GenerateLoop_CountSeeded(acc, i, count) ==
    IF i < count
    THEN GenerateLoop_CountSeeded(
             Append(acc, [NewParticle(i + count) EXCEPT !.id = i]), i + 1, count)
    ELSE acc

generateParticles_CountSeeded(count) == GenerateLoop_CountSeeded(<<>>, 0, count)

\* for (let i = 0; i < count; i++) particles.push({...})
RECURSIVE GenerateLoop(_, _, _)
GenerateLoop(acc, i, count) ==
    IF i < count
    THEN GenerateLoop(Append(acc, NewParticle(i)), i + 1, count)
    ELSE acc

generateParticles(count) == GenerateLoop(<<>>, 0, count)

\* the % operator on numbers: the remainder takes the dividend's sign
Truncated(q) == IF q[1] < 0 THEN -((-q[1]) \div q[2]) ELSE q[1] \div q[2]
Remainder(a, b) == RSub(a, RMul(RInt(Truncated(RDiv(a, b))), b))

\* Math.sin of a fixed-point angle in radians, in fixed point: the angle is
\* taken to a thousandth of a half turn, with pi = 22/7; sin(-a) = -sin(a)
MathSinFx(angle) ==
    Value({IF a < 0
           THEN -FxSin((-a \div 22000) * 7 + ((-a % 22000) * 7) \div 22000)
           ELSE FxSin((a \div 22000) * 7 + ((a % 22000) * 7) \div 22000)
           : a \in {angle}})

\* the style ParticleElement computes once adjustedFrame and twinkleValue
\* are known; the values Math.sin enters are fixed-point numbers
ParticleStyle(particle, adjustedFrame, cycleLength, twinkleValue, wobble, framesPerSecond) ==
    Value({[id |-> particle.id,
            adjustedFrame |-> adjustedFrame,
            cycleFrame |-> cycleFrame,
            yOffset |-> yOffset,
            displayY |->
                IF RLt(RAdd(particle.y, yOffset), RInt(-10))
                THEN RAdd(RAdd(particle.y, yOffset), RInt(130))
                ELSE RAdd(particle.y, yOffset),
            left |-> ToFx(particle.x) + 3 * wobble,
            opacity |-> opacity,
            currentSize |-> FxMul(ToFx(particle.size), sizeMultiplier),
            fadeIn |-> fadeIn,
            alpha |-> FxMul(opacity, ToFx(fadeIn))]
           : cycleFrame \in
                 {Remainder(RMul(adjustedFrame, particle.speed), cycleLength)},
             yOffset \in
                 {Interpolate(Remainder(RMul(adjustedFrame, particle.speed), cycleLength),
                              <<RInt(0), cycleLength>>, <<RInt(0), RInt(-120)>>,
                              "extend", "clamp")},
             opacity \in
                 {ToFx(Interpolate(FxToRat(twinkleValue), <<RInt(-1), RInt(1)>>,
                                   <<Rat(2, 10), RInt(1)>>, "extend", "extend"))},
             sizeMultiplier \in
                 {ToFx(Interpolate(FxToRat(twinkleValue), <<RInt(-1), RInt(1)>>,
                                   <<Rat(8, 10), Rat(12, 10)>>, "extend", "extend"))},
             fadeIn \in
                 {Interpolate(adjustedFrame, <<RInt(0), Rat(5 * framesPerSecond, 10)>>,
                              <<RInt(0), RInt(1)>>, "extend", "clamp")}})

\* the phase (adjustedFrame / fps) * twinkleSpeed * times + twinklePhase of
\* the two Math.sin calls, in fixed point
TwinkleAngle(particle, adjustedFrame, framesPerSecond, times) ==
    ToFx(RMul(RMul(RDiv(adjustedFrame, RInt(framesPerSecond)), particle.twinkleSpeed),
              RInt(times)))
    + ToFx(particle.twinklePhase)

\* a particle animated from the raw frame, its delay ignored
ParticleElement_NoDelay(particle, f, framesPerSecond, totalFrames) ==
    Value({ParticleStyle(particle, adjustedFrame, Rat(7 * totalFrames, 10),
                         MathSinFx(TwinkleAngle(particle, adjustedFrame, framesPerSecond, 3)),
                         MathSinFx(TwinkleAngle(particle, adjustedFrame, framesPerSecond, 1)),
                         framesPerSecond)
           : adjustedFrame \in {MathMax(RInt(0), RInt(f))}})

\* ParticleElement: one particle at frame f
ParticleElement(particle, f, framesPerSecond, totalFrames) ==
    Value({ParticleStyle(particle, adjustedFrame, Rat(7 * totalFrames, 10),
                         MathSinFx(TwinkleAngle(particle, adjustedFrame, framesPerSecond, 3)),
                         MathSinFx(TwinkleAngle(particle, adjustedFrame, framesPerSecond, 1)),
                         framesPerSecond)
           : adjustedFrame \in {MathMax(RInt(0), RSub(RInt(f), particle.delay))}})

\* the interpolate() calls of one ParticleElement
ParticleElementCalls(framesPerSecond, totalFrames) ==
    {Call("particle rise", <<RInt(0), Rat(7 * totalFrames, 10)>>,
          <<RInt(0), RInt(-120)>>),
     Call("particle twinkle", <<RInt(-1), RInt(1)>>, <<Rat(2, 10), RInt(1)>>),
     Call("particle size", <<RInt(-1), RInt(1)>>, <<Rat(8, 10), Rat(12, 10)>>),
     Call("particle fade-in", <<RInt(0), Rat(5 * framesPerSecond, 10)>>,
          <<RInt(0), RInt(1)>>)}

SparklingParticlesCalls(list, framesPerSecond, totalFrames) ==
    IF list = <<>> THEN {} ELSE ParticleElementCalls(framesPerSecond, totalFrames)

\* particles.map((particle) => <ParticleElement .../>)
ParticleElements(list, f, framesPerSecond, totalFrames) ==
    [i \in 1..Len(list) |-> ParticleElement(list[i], f, framesPerSecond, totalFrames)]

\* particleCount = 40 when the prop is left out
DefaultParticleCount == 40

ParticleCounts == (0..MaxParticles) \cup {DefaultParticleCount}

InitParticles ==
    /\ fps = VIDEO_FPS
    /\ durationInFrames = VIDEO_DURATION_IN_FRAMES
    /\ showcaseTexts = DefaultShowcaseTexts
    /\ frame = 0
    /\ volume = AudioVolume(0)
    /\ activeScenes = ActiveScenes(0)
    /\ slides = <<>>
    /\ particleCount \in ParticleCounts
    /\ particles = generateParticles(particleCount)
    /\ earlier = <<>>
    /\ intro = Null
    /\ image = Null
    /\ outro = Null
    /\ background = Null
    /\ features = 0
    /\ featureScene = Null

\* a render with another particleCount: the useMemo dependency changed, so
\* generateParticles runs again
ChangeParticleCount ==
    \E count \in ParticleCounts :
        /\ count # particleCount
        /\ particleCount' = count
        /\ particles' = generateParticles(count)
        /\ earlier' = particles
        /\ UNCHANGED <<fps, durationInFrames, frame, volume, activeScenes,
                       showcaseTexts, slides, sceneVars>>

\* the component mounted anew (another render of the video): a fresh useMemo
\* calls generateParticles with the same count
Remount ==
    /\ particles' = generateParticles(particleCount)
    /\ earlier' = particles
    /\ UNCHANGED <<fps, durationInFrames, frame, volume, activeScenes,
                   showcaseTexts, slides, particleCount, sceneVars>>

\* the frame's render moving the particles of the list itself
RenderParticles_MovesList ==
    /\ frame < MaxRenders
    /\ frame' = frame + 1
    /\ particles' = [i \in 1..Len(particles) |->
                        [particles[i] EXCEPT !.y = RSub(@, particles[i].speed)]]
    /\ UNCHANGED <<fps, durationInFrames, volume, activeScenes, showcaseTexts,
                   slides, particleCount, earlier, sceneVars>>

\* the next frame with the same particleCount: useMemo hands back the list
\* it holds, generateParticles is not called
RenderParticles ==
    /\ frame < MaxRenders
    /\ frame' = frame + 1
    /\ UNCHANGED <<fps, durationInFrames, volume, activeScenes, showcaseTexts,
                   slides, particleCount, particles, earlier, sceneVars>>

NextParticles == ChangeParticleCount \/ Remount \/ RenderParticles

SpecParticles == InitParticles /\ [][NextParticles]_vars

-----------------------------------------------------------------------------
(* Every component on its own in a composition of durationInFrames frames: *)
(* useVideoConfig() hands each of them the composition's fps and length    *)

\* the composition lengths tried: the shortest ones past five seconds, and
\* the registered fifty seconds
DurationValues(framesPerSecond) ==
    {5 * framesPerSecond + k : k \in 1..MaxExtra} \cup {50 * framesPerSecond}

InitComponents ==
    /\ fps \in FpsValues
    /\ durationInFrames \in DurationValues(fps)
    /\ showcaseTexts = DefaultShowcaseTexts
    /\ frame = 0
    /\ volume = AudioVolume(0)
    /\ activeScenes = {}
    /\ slides = ProductShowcase(showcaseTexts, 0, fps)
    /\ particleCount = MaxParticles
    /\ particles = generateParticles(particleCount)
    /\ earlier = <<>>
    /\ intro = IntroScene(0, fps)
    /\ image = ProductImage(0, fps, durationInFrames)
    /\ outro = OutroScene(0, fps, durationInFrames)
    /\ background = BackgroundGradient(0, durationInFrames)
    /\ features = MaxFeatures
    /\ featureScene = FeaturesScene(features, 0, fps)

\* every component evaluated at the next frame
EvaluateComponents ==
    /\ frame + 1 < durationInFrames
    /\ frame' = frame + 1
    /\ volume' = AudioVolume(frame + 1)
    /\ slides' = ProductShowcase(showcaseTexts, frame + 1, fps)
    /\ intro' = IntroScene(frame + 1, fps)
    /\ image' = ProductImage(frame + 1, fps, durationInFrames)
    /\ outro' = OutroScene(frame + 1, fps, durationInFrames)
    /\ background' = BackgroundGradient(frame + 1, durationInFrames)
    /\ featureScene' = FeaturesScene(features, frame + 1, fps)
    /\ UNCHANGED <<fps, durationInFrames, activeScenes, showcaseTexts,
                   particleCount, particles, earlier, features>>

NextComponents == EvaluateComponents

SpecComponents == InitComponents /\ [][NextComponents]_vars

\* the interpolate() calls made while the components render the frame
InterpolateCalls ==
    AudioCalls(frame)
    \cup BackgroundGradientCalls(durationInFrames)
    \cup IntroSceneCalls
    \cup ProductImageCalls(fps, durationInFrames)
    \cup ProductShowcaseTextCalls(showcaseTexts, frame, fps)
    \cup OutroSceneCalls(fps, durationInFrames)
    \cup FeaturesSceneCalls(features, fps)
    \cup SparklingParticlesCalls(particles, fps, durationInFrames)

-----------------------------------------------------------------------------
(* SparklingParticles over the whole video: the memoised list is kept, *)
(* each frame maps it to the particles on screen                       *)

InitSparkling ==
    /\ fps \in FpsValues
    /\ durationInFrames = 50 * fps
    /\ showcaseTexts = 0
    /\ frame = 0
    /\ volume = TargetVolume
    /\ activeScenes = {}
    /\ slides = <<>>
    /\ particleCount = MaxParticles
    /\ particles = generateParticles(particleCount)
    /\ earlier = <<>>
    /\ intro = Null
    /\ image = Null
    /\ outro = Null
    /\ background = Null
    /\ features = 0
    /\ featureScene = Null

\* the next frame of the video
RenderSparkling ==
    /\ frame + 1 < durationInFrames
    /\ frame' = frame + 1
    /\ UNCHANGED <<fps, durationInFrames, volume, activeScenes, showcaseTexts,
                   slides, particleCount, particles, earlier, sceneVars>>

NextSparkling == RenderSparkling

SpecSparkling == InitSparkling /\ [][NextSparkling]_vars

\* what SparklingParticles returns at the current frame
Elements == ParticleElements(particles, frame, fps, durationInFrames)

-----------------------------------------------------------------------------
(* Properties of the showcase texts *)

\* the showcase sequence's own frame
ShowcaseLocalFrame == frame - SceneFrom(2)

C2_WitnessPastEnd ==
    /\ showcaseTexts >= 1
    /\ frame >= LastSlotEnd
    /\ Emitting(slides) = {}

-----------------------------------------------------------------------------
(* Properties of the audio envelope *)

\* C3: the gain at the composition's last frame is exactly 0.
C3_LastFrameGainIsZero ==
    frame = durationInFrames - 1 => volume = RInt(0)

\* the step of the gain from frame f to the next one
VolumeStep(f) == RSub(AudioVolume(f + 1), AudioVolume(f))

\* C4: the gain is 0 at frame 0, rises by a constant non-negative step to
\* exactly 0.7 at 2*fps, is 0.7 up to the fade-out start, falls from 0.7 by a
\* constant non-negative step afterwards, stays within [0, 0.7], and never
\* moves by more than one ramp step between consecutive frames.
C4_ThreePhaseEnvelope ==
    /\ volume = AudioVolume(frame)
    /\ frame = 0 => volume = RInt(0)
    /\ frame = 2 * fps => volume = Rat(7, 10)
    /\ frame < 2 * fps =>
        /\ VolumeStep(frame) = VolumeStep(0)
        /\ RGe(VolumeStep(frame), RInt(0))
    /\ (2 * fps <= frame /\ frame < durationInFrames - 3 * fps) =>
        volume = Rat(7, 10)
    /\ frame = durationInFrames - 3 * fps => volume = Rat(7, 10)
    /\ (frame >= durationInFrames - 3 * fps /\ frame + 1 < durationInFrames) =>
        /\ VolumeStep(frame) = VolumeStep(durationInFrames - 3 * fps)
        /\ RLe(VolumeStep(frame), RInt(0))
    /\ RLe(RInt(0), volume)
    /\ RLe(volume, Rat(7, 10))
    /\ frame + 1 < durationInFrames =>
        /\ RLe(VolumeStep(frame), Rat(7, 20 * fps))
        /\ RGe(VolumeStep(frame), Rat(-7, 30 * fps))

\* a frame inside the fade-out, after each of the other phases was rendered
C4_Witness ==
    /\ frame > durationInFrames - 3 * fps
    /\ RLt(RInt(0), volume)
    /\ RLt(volume, Rat(7, 10))

-----------------------------------------------------------------------------
(* Properties of the scene sequence *)

\* C5: scene durations plus the two transitions add up to the composition's
\* registered duration.
C5_ScenesPlusTransitionsEqualTotal ==
    introSceneDuration + showcaseDuration + outroDuration
        + 2 * transitionDuration = durationInFrames

C7_OutroFillsRestOfVideo ==
    /\ activeScenes # {}
    /\ frame = durationInFrames - 1 => 3 \in activeScenes

-----------------------------------------------------------------------------
(* Properties of the particle generator *)

Min(a, b) == IF a <= b THEN a ELSE b

\* C9: the particle generated for an index is the same in every call of
\* generateParticles, whatever count was asked for and whatever was generated
\* before: the list just generated and the one generated before it agree, in
\* all seven attributes, on every index both hold.
C9_SameIndexSameParticle ==
    \A i \in 1..Min(Len(particles), Len(earlier)) :
        /\ particles[i].x = earlier[i].x
        /\ particles[i].y = earlier[i].y
        /\ particles[i].size = earlier[i].size
        /\ particles[i].speed = earlier[i].speed
        /\ particles[i].delay = earlier[i].delay
        /\ particles[i].twinkleSpeed = earlier[i].twinkleSpeed
        /\ particles[i].twinklePhase = earlier[i].twinklePhase

\* two calls with different counts, both lists holding several particles
C9_Witness ==
    /\ Len(earlier) >= 3
    /\ Len(particles) >= 3
    /\ Len(earlier) # Len(particles)

\* the same count generated twice
C9_WitnessSameCount ==
    /\ Len(earlier) = Len(particles)
    /\ Len(particles) = DefaultParticleCount

InUnit(r) == RLe(RInt(0), r) /\ RLt(r, RInt(1))
Within(r, lo, hi) == RLe(lo, r) /\ RLt(r, hi)

\* the seeds generateParticles draws for index i
SeedsOf(i) == {Rat(i * k * 11, 10) : k \in 1..7}

-----------------------------------------------------------------------------
(* Properties of the entrance animations *)

\* C11: every delayed entrance (intro tagline at 1*fps, intro line at 2*fps,
\* outro call to action at 1*fps, features underline at 0.5*fps, feature item
\* i at (1.5 + 2i)*fps) has progress exactly 0, with the opacity, width and
\* translation derived from it at their resting values, at every frame
\* strictly before its start, and never a negative progress
C11_EntranceZeroBeforeStart ==
    /\ frame < 1 * fps =>
            /\ intro.taglineOpacity = RInt(0)
            /\ intro.taglineTranslateY = RInt(30)
    /\ frame < 2 * fps =>
            /\ intro.lineOpacity = RInt(0)
            /\ intro.lineWidth = RInt(0)
    /\ frame < 1 * fps =>
            /\ outro.ctaOpacity = RInt(0)
            /\ outro.ctaTranslateY = RInt(30)
    /\ 2 * frame < fps => featureScene.lineWidth = RInt(0)
    /\ \A i \in 1..features :
            10 * frame < (15 + 20 * (i - 1)) * fps =>
                /\ featureScene.items[i].opacity = RInt(0)
                /\ featureScene.items[i].translateX = RInt(-50)
    /\ RGe(intro.taglineOpacity, RInt(0))
    /\ RGe(intro.lineOpacity, RInt(0))
    /\ RGe(intro.lineWidth, RInt(0))
    /\ RGe(outro.ctaOpacity, RInt(0))
    /\ RGe(featureScene.lineWidth, RInt(0))
    /\ \A i \in 1..features : RGe(featureScene.items[i].opacity, RInt(0))

\* a frame between the underline's start and the tagline's: the one moves,
\* the other and the second feature item still rest
C11_Witness ==
    /\ 2 * frame > fps
    /\ frame + 1 = 1 * fps
    /\ RGt(featureScene.lineWidth, RInt(0))
    /\ RGt(intro.brandSpring, RInt(0))
    /\ intro.taglineOpacity = RInt(0)
    /\ outro.ctaOpacity = RInt(0)
    /\ features >= 2
    /\ featureScene.items[2].opacity = RInt(0)

\* the entrances do start: past its offset each one has moved
C11_WitnessStarted ==
    /\ frame > 2 * fps
    /\ RGt(intro.taglineOpacity, RInt(0))
    /\ RGt(intro.lineWidth, RInt(0))
    /\ RGt(outro.ctaOpacity, RInt(0))
    /\ features >= 1
    /\ RGt(featureScene.items[1].opacity, RInt(0))

\* the rest threshold of measureSpring, the tolerance of "settled"
SpringEpsilon == Rat(5, 1000)

NearOne(x) ==
    /\ RLe(RSub(RInt(1), SpringEpsilon), x)
    /\ RLe(x, RAdd(RInt(1), SpringEpsilon))

\* a spring started start10/10 seconds into the scene with a
\* durationInFrames of duration10/10 seconds, seen at the current frame
SpringSettles(value, start10, duration10) ==
    /\ 10 * frame <= start10 * fps => value = RInt(0)
    /\ 10 * frame >= (start10 + duration10) * fps => NearOne(value)

\* C12: a spring started at frame s with durationInFrames d is 0 at every
\* frame <= s and within epsilon of 1 at every frame >= s + d; so the intro's
\* brand spring (s = 0, d = 2*fps) is 0 at frame 0 and about 1 from 2*fps on
C12_SpringSettlesAfterDuration ==
    /\ SpringSettles(intro.brandSpring, 0, 20)
    /\ SpringSettles(intro.taglineSpring, 10, 15)
    /\ SpringSettles(intro.lineProgress, 20, 20)
    /\ SpringSettles(outro.brandSpring, 0, 20)
    /\ SpringSettles(outro.ctaSpring, 10, 15)
    /\ SpringSettles(featureScene.titleOpacity, 0, 15)
    /\ SpringSettles(featureScene.lineSpring, 5, 10)
    /\ \A i \in 1..features :
            SpringSettles(featureScene.items[i].itemSpring, 15 + 20 * (i - 1), 15)

\* frame 60 at 30 fps: the brand spring has come to rest just short of 1, the
\* tagline's is still under way, the line's has not started
C12_Witness ==
    /\ fps = VIDEO_FPS
    /\ frame = 2 * fps
    /\ NearOne(intro.brandSpring)
    /\ intro.brandSpring # RInt(1)
    /\ ~NearOne(intro.taglineSpring)
    /\ intro.lineProgress = RInt(0)

\* a bouncing feature item at rest at the end of its duration, above 1
C12_WitnessOvershoot ==
    /\ features >= 1
    /\ frame = 3 * fps
    /\ NearOne(featureScene.items[1].itemSpring)
    /\ RGt(featureScene.items[1].itemSpring, RInt(1))

-----------------------------------------------------------------------------
(* Properties of the interpolated values *)

\* the frame each scene's hooks see
ImageLocalFrame == frame - SceneFrom(2)
OutroLocalFrame == frame - SceneFrom(3)

\* the outputs listed alternately in an outputRange, by 0-based position
Alternating(k, even, odd) == IF k % 2 = 0 THEN even ELSE odd

\* at a breakpoint the listed output, on a clamped side the boundary value
InterpolationAtBreakpoints ==
    /\ frame = 0 => background.gradientAngle = RInt(135)
    /\ RLe(RInt(135), background.gradientAngle)
    /\ RLe(background.gradientAngle, RInt(225))
    /\ \A k \in 0..3 :
            4 * frame = k * durationInFrames =>
                background.shimmerOpacity = Alternating(k, Rat(5, 100), Rat(1, 10))
    /\ 2 \in activeScenes =>
            /\ \A k \in 0..7 :
                    ImageLocalFrame = k * 2 * fps =>
                        image.glowIntensity = Alternating(k, Rat(2, 10), Rat(5, 10))
            /\ ImageLocalFrame >= 14 * fps => image.glowIntensity = Rat(5, 10)
            /\ 2 * ImageLocalFrame = showcaseDuration => image.floatOffset = RInt(-15)
            /\ ImageLocalFrame = 0 => image.rotation = RInt(-2)
    /\ 3 \in activeScenes =>
            /\ \A k \in 0..4 :
                    OutroLocalFrame = k * fps =>
                        outro.pulsePhase = Alternating(k, RInt(1), Rat(103, 100))
            /\ \A k \in 0..3 :
                    OutroLocalFrame = k * 2 * fps =>
                        outro.glowIntensity = Alternating(k, Rat(3, 10), Rat(6, 10))
            /\ OutroLocalFrame <= outroDuration - 2 * fps =>
                    outro.fadeOutProgress = RInt(1)

\* from one frame to the next: monotonic inside a segment, and on an extended
\* side the slope of the nearest segment
InterpolationBetweenFrames ==
    frame' = frame + 1 =>
        /\ RLe(background.gradientAngle, background'.gradientAngle)
        /\ 2 \in activeScenes /\ 2 \in activeScenes' =>
                /\ \A k \in 0..6 :
                        /\ k * 2 * fps <= ImageLocalFrame
                        /\ ImageLocalFrame < (k + 1) * 2 * fps
                        => IF k % 2 = 0
                           THEN RLe(image.glowIntensity, image'.glowIntensity)
                           ELSE RGe(image.glowIntensity, image'.glowIntensity)
                /\ RLe(image.rotation, image'.rotation)
                /\ IF 2 * ImageLocalFrame < showcaseDuration
                   THEN RGe(image.floatOffset, image'.floatOffset)
                   ELSE RLe(image.floatOffset, image'.floatOffset)
        /\ 3 \in activeScenes /\ 3 \in activeScenes' =>
                /\ OutroLocalFrame >= 3 * fps =>
                        RSub(outro'.pulsePhase, outro.pulsePhase) = Rat(-3, 100 * fps)
                /\ OutroLocalFrame >= 4 * fps =>
                        RSub(outro'.glowIntensity, outro.glowIntensity) = Rat(3, 20 * fps)

\* C13: an interpolated value equals the listed output at each breakpoint
\* frame, is monotonic inside each segment whose outputs are ordered, keeps
\* the boundary value past a clamped end and the last segment's slope past an
\* extended end; the background's gradient angle is 135 at frame 0,
\* non-decreasing and never above 225
C13_InterpolationShape ==
    [](InterpolationAtBreakpoints) /\ [][InterpolationBetweenFrames]_vars

\* the image glow held at 0.5 past its last breakpoint while the gradient
\* angle is strictly between its ends
C13_Witness ==
    /\ 2 \in activeScenes
    /\ ImageLocalFrame > 14 * fps
    /\ image.glowIntensity = Rat(5, 10)
    /\ RLt(RInt(135), background.gradientAngle)
    /\ RLt(background.gradientAngle, RInt(225))

\* the outro's pulse past its last breakpoint, on the extended slope
C13_WitnessExtended ==
    /\ 3 \in activeScenes
    /\ OutroLocalFrame > 4 * fps
    /\ RLt(outro.pulsePhase, RInt(1))

-----------------------------------------------------------------------------
(* Properties of the render loop *)

-----------------------------------------------------------------------------
(* Properties of the memoized particle list *)

\* C15: the memoized particle list is created once per particleCount and
\* read-only afterwards: a step that keeps particleCount leaves the list as
\* it is, rendering a frame calls generateParticles for nothing, and the
\* list always holds particleCount particles (it is made anew when the
\* count changes)
C15_ParticleListStable ==
    [][/\ particleCount' = particleCount => particles' = particles
       /\ frame' # frame => particles' = particles /\ earlier' = earlier
       /\ Len(particles') = particleCount']_vars

\* frames rendered with a list that was made for a new count
C15_Witness ==
    /\ frame >= 2
    /\ particleCount >= 3
    /\ Len(particles) = particleCount
    /\ Len(earlier) >= 1
    /\ Len(earlier) # particleCount

-----------------------------------------------------------------------------
(* Properties of the outro scene *)

\* C16: over the outro's own frames 0 .. 8*fps - 1 the container opacity is
\* 1 up to frame 6*fps, then falls linearly over the last two seconds, is
\* one frame step above 0 at the scene's last frame, and is always in [0, 1]
C16_OutroFadesOverLastTwoSeconds ==
    3 \in activeScenes =>
        /\ 0 <= OutroLocalFrame /\ OutroLocalFrame < 8 * fps
        /\ RLe(RInt(0), outro.fadeOutProgress)
        /\ RLe(outro.fadeOutProgress, RInt(1))
        /\ OutroLocalFrame <= 6 * fps => outro.fadeOutProgress = RInt(1)
        /\ OutroLocalFrame >= 6 * fps =>
                outro.fadeOutProgress = Rat(8 * fps - OutroLocalFrame, 2 * fps)
        /\ OutroLocalFrame = 8 * fps - 1 =>
                outro.fadeOutProgress = Rat(1, 2 * fps)

\* the scene's last frame: one step of the ramp left
C16_Witness ==
    /\ 3 \in activeScenes
    /\ fps = VIDEO_FPS
    /\ OutroLocalFrame = 8 * fps - 1
    /\ outro.fadeOutProgress = Rat(1, 60)

\* halfway down the ramp
C16_WitnessMidFade ==
    /\ 3 \in activeScenes
    /\ OutroLocalFrame = 7 * fps
    /\ outro.fadeOutProgress = Rat(1, 2)

\* C17: throughout the outro scene the call to action's pulse scale stays
\* within [1, 1.03] and its glow intensity within [0.3, 0.6], also after the
\* last breakpoint of each (4*fps and 6*fps)
C17_PulseAndGlowStayInRange ==
    3 \in activeScenes =>
        /\ RLe(RInt(1), outro.pulsePhase)
        /\ RLe(outro.pulsePhase, Rat(103, 100))
        /\ RLe(Rat(3, 10), outro.glowIntensity)
        /\ RLe(outro.glowIntensity, Rat(6, 10))

-----------------------------------------------------------------------------
(* Properties of the product image *)

\* C18: for the whole showcase scene, frames 0 .. 34*fps - 1, the image glow
\* is within [0.2, 0.5] and alternates: 0.2 at the even multiples of 2*fps,
\* 0.5 at the odd ones, after 14*fps as before
C18_GlowAlternatesWholeScene ==
    2 \in activeScenes =>
        /\ RLe(Rat(2, 10), image.glowIntensity)
        /\ RLe(image.glowIntensity, Rat(5, 10))
        /\ \A k \in 0..16 :
                ImageLocalFrame = k * 2 * fps =>
                    image.glowIntensity = Alternating(k, Rat(2, 10), Rat(5, 10))

-----------------------------------------------------------------------------
(* Properties of the feature list *)

\* item i (1-based) of the scene, and ten times its start in seconds
Item(i) == featureScene.items[i]
ItemStart10(i) == 15 + 20 * (i - 1)

\* C19: the feature items are revealed in index order by a shifted clock:
\* item i starts at (1.5 + 2i)*fps (0-based i), 2*fps after the item before
\* it; an item whose start lies ahead has opacity 0, translateX -50 and glow
\* 0; no item is visible while the one before it has not started; each
\* glow stays in [0, 0.8], is 0.8 half a second after the item's start and
\* 0 again from one and a half seconds after it
C19_ItemsRevealedInOrder ==
    \A i \in 1..features :
        /\ Item(i).delay = Rat(ItemStart10(i) * fps, 10)
        /\ i > 1 => RSub(Item(i).delay, Item(i - 1).delay) = RInt(2 * fps)
        /\ 10 * frame < ItemStart10(i) * fps =>
                /\ Item(i).opacity = RInt(0)
                /\ Item(i).translateX = RInt(-50)
                /\ Item(i).glowOpacity = RInt(0)
        /\ i > 1 /\ RGt(Item(i).opacity, RInt(0)) =>
                /\ 10 * frame >= ItemStart10(i - 1) * fps
                /\ RGt(Item(i - 1).opacity, RInt(0))
        /\ RLe(RInt(0), Item(i).glowOpacity)
        /\ RLe(Item(i).glowOpacity, Rat(8, 10))
        /\ 10 * frame = (ItemStart10(i) + 5) * fps => Item(i).glowOpacity = Rat(8, 10)
        /\ 10 * frame >= (ItemStart10(i) + 15) * fps => Item(i).glowOpacity = RInt(0)

\* two seconds in: the first item at the peak of its glow, the second and
\* third still waiting off screen
C19_Witness ==
    /\ features >= 3
    /\ frame = 2 * fps
    /\ RGt(Item(1).opacity, RInt(0))
    /\ Item(1).glowOpacity = Rat(8, 10)
    /\ Item(2).opacity = RInt(0)
    /\ Item(2).translateX = RInt(-50)
    /\ Item(3).glowOpacity = RInt(0)

\* later: the second item glowing, the first one's glow over
C19_WitnessSecondItem ==
    /\ features >= 2
    /\ RGt(Item(2).opacity, RInt(0))
    /\ RGt(Item(2).glowOpacity, RInt(0))
    /\ Item(1).glowOpacity = RInt(0)
    /\ RGt(Item(1).opacity, RInt(0))

-----------------------------------------------------------------------------
(* Properties of a text slide's fades *)

\* ten times the slot length 6.8*fps and the fade length 0.5*fps, in frames
Slot10 == 68 * fps
Fade10 == 5 * fps

\* C20: a TextSlide that emits output is at a local frame in [0, slot), so
\* its entrance spring is never evaluated at a negative frame; its exit
\* factor is exactly 1 up to local frame slot - 0.5*fps and falls linearly
\* after it, staying in (0, 1]; the final opacity, entrance times exit, is
\* within [0, 1]
C20_TextSlideFades ==
    \A i \in Emitting(slides) :
        LET slide == slides[i + 1]
            local == slide.localFrame
        IN  /\ RLe(RInt(0), local)
            /\ RLt(local, Rat(Slot10, 10))
            /\ RLe(RInt(0), slide.entranceProgress)
            /\ RLe(slide.entranceProgress, RInt(1))
            /\ local = RInt(0) => slide.entranceProgress = RInt(0)
            /\ RLe(local, Rat(Slot10 - Fade10, 10)) => slide.exitOpacity = RInt(1)
            /\ RGe(local, Rat(Slot10 - Fade10, 10)) =>
                    slide.exitOpacity = RDiv(RSub(Rat(Slot10, 10), local), Rat(Fade10, 10))
            /\ RLt(RInt(0), slide.exitOpacity)
            /\ RLe(slide.exitOpacity, RInt(1))
            /\ slide.opacity = RMul(slide.entranceProgress, slide.exitOpacity)
            /\ RLe(RInt(0), slide.opacity)
            /\ RLe(slide.opacity, RInt(1))

\* a slide in its last half second: entered in full, fading out
C20_Witness ==
    \E i \in Emitting(slides) :
        /\ i >= 1
        /\ slides[i + 1].entranceProgress = RInt(1)
        /\ RLt(slides[i + 1].exitOpacity, RInt(1))
        /\ RLt(RInt(0), slides[i + 1].opacity)
        /\ RLt(slides[i + 1].opacity, Rat(1, 2))

\* a slide still entering, its exit factor at 1
C20_WitnessEntering ==
    \E i \in Emitting(slides) :
        /\ RLt(RInt(0), slides[i + 1].entranceProgress)
        /\ RLt(slides[i + 1].entranceProgress, RInt(1))
        /\ slides[i + 1].exitOpacity = RInt(1)


-----------------------------------------------------------------------------
(* The arguments of the interpolate() calls *)

\* C21: whatever fps > 0, durationInFrames > 5*fps and frame the components
\* are rendered with, every interpolate() call they make (audio fade-in and
\* fade-out, outro fade-out, pulse and glow, text-slide exit, showcase float,
\* glow and rotation, background angle and shimmer, particle rise, fade-in
\* and twinkle, feature glow) is handed an input and an output array of the
\* same length, two or more, with strictly increasing input breakpoints: none
\* can raise InvalidConfiguration.
C21_NoInvalidConfiguration ==
    \A call \in InterpolateCalls : ValidConfiguration(call)

\* the audio fading out in the shortest composition while a text slide is
\* shown: every call site named above is exercised
C21_Witness ==
    /\ durationInFrames = 5 * fps + 1
    /\ frame >= audioFadeOutStart
    /\ \A site \in
           {"audio fade-out", "outro fade-out", "outro pulse", "outro glow",
            "text-slide exit", "showcase float", "showcase glow",
            "showcase rotation", "background angle", "background shimmer",
            "particle rise", "particle fade-in", "particle twinkle",
            "feature glow"} :
           \E call \in InterpolateCalls : call.site = site

\* the fade-in call, made on the first frames
C21_WitnessFadeIn ==
    /\ frame > 0
    /\ "audio fade-in" \in {call.site : call \in InterpolateCalls}


-----------------------------------------------------------------------------
(* The particles on screen *)

ParticleInBounds(particle, element) ==
    /\ RGe(element.adjustedFrame, RInt(0))
    /\ RLe(RInt(frame), particle.delay) => element.fadeIn = RInt(0)
    /\ RGe(element.fadeIn, RInt(0)) /\ RLe(element.fadeIn, RInt(1))
    /\ RGe(RInt(frame), RAdd(particle.delay, Rat(5 * fps, 10))) =>
           element.fadeIn = RInt(1)
    /\ RGe(element.cycleFrame, RInt(0))
    /\ RLt(element.cycleFrame, Rat(7 * durationInFrames, 10))
    /\ RGe(element.displayY, RInt(-10)) /\ RLe(element.displayY, RInt(120))

\* C22: for every particle at every frame >= 0, the delay-adjusted frame
\* max(0, frame - delay) is not negative; the fade-in factor is 0 until the
\* delay has elapsed, within [0, 1] afterwards and 1 from delay + 0.5*fps on;
\* the cycle frame lies in [0, 0.7*durationInFrames); and the displayed
\* vertical position, 130 added when the position is below -10, lies in
\* [-10, 120].
C22_ParticleStaysInBounds ==
    \A i \in 1..Len(particles) : ParticleInBounds(particles[i], Elements[i])

\* a particle recycled to the bottom while another still waits for its delay
C22_Witness ==
    /\ frame > 0
    /\ \E i \in 1..Len(particles) :
           /\ RLt(RAdd(particles[i].y, Elements[i].yOffset), RInt(-10))
           /\ Elements[i].fadeIn = RInt(1)
    /\ \E i \in 1..Len(particles) :
           /\ RGt(particles[i].delay, RInt(frame))
           /\ Elements[i].fadeIn = RInt(0)

\* a particle half-way through its fade-in
C22_WitnessFadingIn ==
    \E i \in 1..Len(particles) :
        /\ RGt(RInt(frame), particles[i].delay)
        /\ RGt(Elements[i].fadeIn, RInt(0))
        /\ RLt(Elements[i].fadeIn, RInt(1))

\* a particle whose cycle has wrapped: it has risen more than a cycle length
C22_WitnessWrapped ==
    \E i \in 1..Len(particles) :
        /\ RGe(RMul(Elements[i].adjustedFrame, particles[i].speed),
               Rat(7 * durationInFrames, 10))
        /\ RLt(Elements[i].cycleFrame, Rat(7 * durationInFrames, 10))

=============================================================================
